---- MODULE Spec2Model ----
(***************************************************************************)
(* Model of src/src/process.rs: the process table interaction (allocate),  *)
(* spawn, send_message and the wake protocol, run by worker threads.       *)
(*                                                                         *)
(* A process object is identified by the table slot it was built for; its  *)
(* own pid field is pidOf[k].  The process table, the mailbox and the      *)
(* scheduler pool are collaborators whose code is not in process.rs: they  *)
(* are modelled from their interface (spec.md sections 4.3, 5 and 6) as    *)
(* atomic operations, and so is the park protocol a process follows.       *)
(***************************************************************************)
EXTENDS Integers, Sequences, FiniteSets, TLC

\* ---- bounds of the model
NThreads == 2
MaxPid == 3
MaxMbox == 1
MaxQueue == 1
MaxArgs == 17
MaxParks == 2

\* ---- program constants and sentinels
NumRegs == 16
NoPid == -1
NoThread == 0
NoFun == -1

Threads == 1..NThreads
PIDs == 0..(MaxPid - 1)
Msgs == {"m1", "m2"}
Nil == "Nil"

\* The module's function table (func, arity 1) -> entry offset, and the
\* function identifiers a caller may pass (2 is not in the table).
Funs == [f \in {1} |-> 7]
FuncIds == {1, 2}

\* Argument lists: a chain of cons cells (elems) ended by a terminal value.
ArgLists == {[elems |-> <<"A">>, tail |-> Nil]}

VARIABLES
    reserved,   \* process table: PIDs handed out by reserve()
    mapped,     \* process table: PIDs that map(pid, process) has registered
    mapCalls,   \* number of map() calls made per PID
    pidOf,      \* Process.pid of the object built for each slot
    waiting,    \* Process.waiting_for_message
    mailbox,    \* LocalData.mailbox: [internal, external] lanes
    ctx,        \* LocalData.context: the ExecutionContext
    queue,      \* process_pool: jobs scheduled and not yet taken
    lock,       \* holder of the state.process_table mutex
    pc,         \* each worker thread's position
    cur,        \* the process each worker thread is executing
    loc,        \* each worker thread's frame of the call in progress
    allocCount, \* per pid value: successful allocate() returns carrying it
    armed,      \* per process: flag set by the process, not yet observed by a sender
    ldata,      \* LocalData.thread_id and LocalData.dictionary
    hist        \* where kept: per process, flag sets and schedule calls so far

vars == <<reserved, mapped, mapCalls, pidOf, waiting, mailbox, ctx, queue,
          lock, pc, cur, loc, allocCount, armed, ldata, hist>>

NoRet == <<"none", "none">>

Frame0 ==
    [pidv |-> NoPid, msg |-> "none", recv |-> NoPid, obs |-> FALSE,
     dup |-> FALSE, reset |-> FALSE, stored |-> FALSE, flipped |-> FALSE,
     sched |-> 0, intl |-> 0, extl |-> 0, maps |-> 0,
     newk |-> NoPid, func |-> 0, args |-> [elems |-> <<>>, tail |-> Nil],
     ret |-> NoRet]

EmptyMailbox == [internal |-> <<>>, external |-> <<>>]

NewContextUsed ==
    [x |-> [i \in 1..NumRegs |-> Nil], f |-> [i \in 1..NumRegs |-> 0],
     stack |-> <<>>, catches |-> 0, ip |-> 0, cp |-> {0}, live |-> 1]
\* ExecutionContext::new: x is written Nil slot by slot, f is [0.0; 16]; an
\* Option is the set of its values ({} is None).  The fields bs, heap, module
\* and exc are read by no operation of this file and are left out.
NewContext ==
    [x |-> [i \in 1..NumRegs |-> Nil], f |-> [i \in 1..NumRegs |-> 0],
     stack |-> <<>>, catches |-> 0, ip |-> 0, cp |-> {}, live |-> 0]

\* Process::with_rc: thread_id: None, dictionary: HashMap::new()
NewLocalData == [thread_id |-> {}, dictionary |-> {}]

\* The history counters of a run that keeps none
NoHist == <<>>
CountSet(h, k) == IF k \in DOMAIN h THEN [h EXCEPT ![k].sets = @ + 1] ELSE h
CountSched(h, k) == IF k \in DOMAIN h THEN [h EXCEPT ![k].scheds = @ + 1] ELSE h

MboxLen(k) == Len(mailbox[k].internal) + Len(mailbox[k].external)


Boot ==
    /\ reserved = {}
    /\ mapped = {}
    /\ mapCalls = [k \in PIDs |-> 0]
    /\ pidOf = [k \in PIDs |-> NoPid]
    /\ waiting = [k \in PIDs |-> FALSE]
    /\ mailbox = [k \in PIDs |-> EmptyMailbox]
    /\ ctx = [k \in PIDs |-> NewContext]
    /\ queue = <<>>
    /\ lock = NoThread
    /\ pc = [t \in Threads |-> "idle"]
    /\ cur = [t \in Threads |-> NoPid]
    /\ loc = [t \in Threads |-> Frame0]
    /\ allocCount = [p \in PIDs |-> 0]
    /\ armed = [k \in PIDs |-> FALSE]
    /\ ldata = [k \in PIDs |-> NewLocalData]

Init == Boot /\ hist = NoHist

\* Where a thread resumes when a call returns: the process code it was
\* running, or the idle loop of a worker that runs no process.
Resume(t) == IF cur[t] = NoPid THEN "idle" ELSE "run"

\* ---------------------------------------------------------------------
\* Process table (interface of spec.md section 4.3)

SetMin(S) == CHOOSE x \in S : \A y \in S : x <= y

\* reserve(): a fresh PID, or none when the capacity is used up
TableReserve == IF PIDs \ reserved = {} THEN NoPid ELSE SetMin(PIDs \ reserved)

\* map(pid, process)
TableMap(m, pid) == m \cup {pid}

\* get(pid): the process registered under pid, or none
TableGet(pid) == IF pid \in mapped THEN pid ELSE NoPid

\* ---------------------------------------------------------------------
\* allocate (process.rs 184-198)

\* state.process_table.lock(): blocks until the mutex is free
LockFree == lock = NoThread

ReservedPidOrZero(r) == IF r = NoPid THEN 0 ELSE r
\* .ok_or_else(|| "No PID could be reserved")? : none stays a failure
ReservedPid(r) == r

FromBlockPidZero(pid) == 0
\* the pid handed to Process::from_block
FromBlockPid(pid) == pid

AllocateNoMap(m, pid) == m
\* process_table.map(pid, process.clone())
AllocateMap(m, pid) == TableMap(m, pid)

AllocError == <<"Err", "No PID could be reserved">>

AlLock(t) ==
    /\ pc[t] = "al_lock"
    /\ LockFree
    /\ lock' = t
    /\ pc' = [pc EXCEPT ![t] = "al_reserve"]
    /\ UNCHANGED <<reserved, mapped, mapCalls, pidOf, waiting, mailbox, ctx,
                   queue, cur, loc, allocCount, armed, ldata, hist>>

\* reserve(), then either the early return of `?` (the guard is dropped on
\* the way out) or Process::from_block building the new process.
AlReserve(t) ==
    /\ pc[t] = "al_reserve"
    /\ LET p == ReservedPid(TableReserve) IN
         IF p = NoPid
         THEN /\ lock' = NoThread
              /\ loc' = [loc EXCEPT ![t].ret = AllocError]
              /\ pc' = [pc EXCEPT ![t] = "sp_done"]
              /\ UNCHANGED <<reserved, pidOf, waiting, mailbox, ctx, armed, ldata>>
         ELSE /\ reserved' = reserved \cup {p}
              /\ pidOf' = [pidOf EXCEPT ![p] = FromBlockPid(p)]
              /\ waiting' = [waiting EXCEPT ![p] = FALSE]
              /\ mailbox' = [mailbox EXCEPT ![p] = EmptyMailbox]
              /\ ctx' = [ctx EXCEPT ![p] = NewContext]
              /\ armed' = [armed EXCEPT ![p] = FALSE]
              /\ ldata' = [ldata EXCEPT ![p] = NewLocalData]
              /\ loc' = [loc EXCEPT ![t].newk = p]
              /\ pc' = [pc EXCEPT ![t] = "al_map"]
              /\ UNCHANGED lock
    /\ UNCHANGED <<mapped, mapCalls, queue, cur, allocCount, hist>>

\* map(pid, process), then Ok(process): the guard is dropped at the return.
AlMap(t) ==
    /\ pc[t] = "al_map"
    /\ LET k == loc[t].newk IN
         /\ mapped' = AllocateMap(mapped, k)
         /\ mapCalls' = [mapCalls EXCEPT ![k] = @ + 1]
         /\ allocCount' = [allocCount EXCEPT ![pidOf[k]] = @ + 1]
         /\ loc' = [loc EXCEPT ![t].maps = @ + 1]
    /\ lock' = NoThread
    /\ pc' = [pc EXCEPT ![t] = "sp_init"]
    /\ UNCHANGED <<reserved, pidOf, waiting, mailbox, ctx, queue, cur, armed, ldata, hist>>


\* ---------------------------------------------------------------------
\* spawn (process.rs 200-240)

FunLookupZero(f) == 0
\* (*module).funs.get(&(func, 1))
FunLookup(f) == IF f \in DOMAIN Funs THEN Funs[f] ELSE NoFun

WriteRegFirst(x, i, v) == [x EXCEPT ![1] = v]
\* context.x[i] = v: a checked array index, i counted from 0
WriteReg(x, i, v) == [x EXCEPT ![i + 1] = v]

CopyArgsTruncating(x, elems, tail, i) == [x |-> x, ok |-> TRUE]
\* The while-let loop over the cons cells and the final write of the tail:
\* the registers after it, and whether every index was within the array.
RECURSIVE CopyArgs(_, _, _, _)
CopyArgs(x, elems, tail, i) ==
    IF i >= NumRegs
    THEN [x |-> x, ok |-> FALSE]
    ELSE IF elems = <<>>
         THEN [x |-> WriteReg(x, i, tail), ok |-> TRUE]
         ELSE CopyArgs(WriteReg(x, i, Head(elems)), Tail(elems), tail, i + 1)

\* A call of spawn: by the code of a running process, or by the runtime
\* starting its first process on a thread that runs none.
CallSpawn(t, f, a) ==
    /\ \/ pc[t] = "run"
       \/ pc[t] = "idle" /\ reserved = {}
    /\ loc' = [loc EXCEPT ![t] = [Frame0 EXCEPT !.func = f, !.args = a]]
    /\ pc' = [pc EXCEPT ![t] = "al_lock"]
    /\ UNCHANGED <<reserved, mapped, mapCalls, pidOf, waiting, mailbox, ctx,
                   queue, lock, cur, allocCount, armed, ldata, hist>>

\* funs.get(..).expect(..), context.ip = *func, and the argument copy.
\* A missing function and an index past the register file both panic.
SpInit(t) ==
    /\ pc[t] = "sp_init"
    /\ LET k == loc[t].newk
           off == FunLookup(loc[t].func)
           r == CopyArgs(ctx[k].x, loc[t].args.elems, loc[t].args.tail, 0)
       IN IF off = NoFun
          THEN /\ pc' = [pc EXCEPT ![t] = "panicked"]
               /\ UNCHANGED ctx
          ELSE /\ ctx' = [ctx EXCEPT ![k] = [@ EXCEPT !.x = r.x, !.ip = off]]
               /\ pc' = [pc EXCEPT ![t] = IF r.ok THEN "sp_sched" ELSE "panicked"]
    /\ UNCHANGED <<reserved, mapped, mapCalls, pidOf, waiting, mailbox,
                   queue, lock, cur, loc, allocCount, armed, ldata, hist>>

\* state.process_pool.schedule(Job::normal(new_proc)); Ok(pid_ptr)
SpSchedule(t) ==
    /\ pc[t] = "sp_sched"
    /\ LET k == loc[t].newk IN
         /\ queue' = Append(queue, k)
         /\ hist' = CountSched(hist, k)
         /\ loc' = [loc EXCEPT ![t].sched = @ + 1, ![t].ret = <<"Ok", pidOf[k]>>]
    /\ pc' = [pc EXCEPT ![t] = "sp_done"]
    /\ UNCHANGED <<reserved, mapped, mapCalls, pidOf, waiting, mailbox, ctx,
                   lock, cur, allocCount, armed, ldata>>

\* The caller takes the result and goes on.
SpReturn(t) ==
    /\ pc[t] = "sp_done"
    /\ pc' = [pc EXCEPT ![t] = Resume(t)]
    /\ loc' = [loc EXCEPT ![t] = Frame0]
    /\ UNCHANGED <<reserved, mapped, mapCalls, pidOf, waiting, mailbox, ctx,
                   queue, lock, cur, allocCount, armed, ldata, hist>>

\* ---------------------------------------------------------------------
\* Process::send_message (process.rs 167-173) and the mailbox lanes

LaneAlwaysExternal(senderPid, selfPid) == "external"
\* if sender.pid == self.pid { send_internal } else { send_external }
Lane(senderPid, selfPid) == IF senderPid = selfPid THEN "internal" ELSE "external"

\* Mailbox::send_internal / send_external
MailboxSend(mb, lane, m) ==
    IF lane = "internal"
    THEN [mb EXCEPT !.internal = Append(@, m)]
    ELSE [mb EXCEPT !.external = Append(@, m)]

\* Mailbox receive: the next message, the internal lane first
MailboxHasMessage(mb) == mb.internal # <<>> \/ mb.external # <<>>
MailboxPop(mb) ==
    IF mb.internal # <<>>
    THEN [mb EXCEPT !.internal = Tail(@)]
    ELSE [mb EXCEPT !.external = Tail(@)]

\* ---------------------------------------------------------------------
SetWaitingAll(w, k, v) == [j \in DOMAIN w |-> v]
\* Process::set_waiting_for_message (process.rs 175-177): a relaxed store
SetWaiting(w, k, v) == [w EXCEPT ![k] = v]

\* ---------------------------------------------------------------------
\* send_message (process.rs 242-263)

WakeNoClear(w, k) == w
WakeClearSets(w, k) == SetWaiting(w, k, TRUE)
\* receiver.set_waiting_for_message(false)
WakeClear(w, k) == SetWaiting(w, k, FALSE)

GuardDroppedAfterGet(t) == NoThread
\* The MutexGuard is a temporary of the if-let scrutinee: it lives to the
\* end of the if-let statement, so the mutex stays held through the body.
GuardAfterGet(t) == t

SendResultErr(m) == <<"Err", m>>
\* Ok(msg)
SendResult(m) == <<"Ok", m>>

WakeAlways(flag) == TRUE
WakeInverted(flag) == ~flag
\* if receiver.is_waiting_for_message()
WakeNeeded(flag) == flag

\* A call of send_message by the code of the running process cur[t].
CallSend(t, p, m) ==
    /\ pc[t] = "run"
    /\ Len(queue) < MaxQueue
    /\ p \in reserved => MboxLen(p) < MaxMbox
    /\ loc' = [loc EXCEPT ![t] = [Frame0 EXCEPT !.pidv = p, !.msg = m]]
    /\ pc' = [pc EXCEPT ![t] = "sm_lock"]
    /\ UNCHANGED <<reserved, mapped, mapCalls, pidOf, waiting, mailbox, ctx,
                   queue, lock, cur, allocCount, armed, ldata, hist>>

\* state.process_table.lock().unwrap().get(pid); with no receiver the
\* if-let ends at once (the guard is dropped) and the call returns Ok(msg).
SmLock(t) ==
    /\ pc[t] = "sm_lock"
    /\ LockFree
    /\ LET r == TableGet(loc[t].pidv) IN
         IF r = NoPid
         THEN /\ lock' = NoThread
              /\ loc' = [loc EXCEPT ![t].ret = SendResult(loc[t].msg)]
              /\ pc' = [pc EXCEPT ![t] = "sm_done"]
         ELSE /\ lock' = GuardAfterGet(t)
              /\ loc' = [loc EXCEPT ![t].recv = r]
              /\ pc' = [pc EXCEPT ![t] = "sm_deliver"]
    /\ UNCHANGED <<reserved, mapped, mapCalls, pidOf, waiting, mailbox, ctx,
                   queue, cur, allocCount, armed, ldata, hist>>

\* receiver.send_message(process, msg)
SmDeliver(t) ==
    /\ pc[t] = "sm_deliver"
    /\ LET r == loc[t].recv
           lane == Lane(pidOf[cur[t]], pidOf[r])
       IN /\ mailbox' = [mailbox EXCEPT ![r] = MailboxSend(@, lane, loc[t].msg)]
          /\ loc' = [loc EXCEPT ![t].intl = IF lane = "internal" THEN @ + 1 ELSE @,
                                ![t].extl = IF lane = "external" THEN @ + 1 ELSE @]
    /\ pc' = [pc EXCEPT ![t] = "sm_check"]
    /\ UNCHANGED <<reserved, mapped, mapCalls, pidOf, waiting, ctx, queue,
                   lock, cur, allocCount, armed, ldata, hist>>

\* receiver.is_waiting_for_message(): a relaxed load of the flag
SmCheck(t) ==
    /\ pc[t] = "sm_check"
    /\ LET r == loc[t].recv
           flag == waiting[r]
       IN /\ loc' = [loc EXCEPT ![t].obs = flag, ![t].dup = flag /\ ~armed[r]]
          /\ armed' = [armed EXCEPT ![r] = IF flag THEN FALSE ELSE @]
          /\ pc' = [pc EXCEPT ![t] = IF WakeNeeded(flag) THEN "sm_clear" ELSE "sm_unlock"]
    /\ UNCHANGED <<reserved, mapped, mapCalls, pidOf, waiting, mailbox, ctx,
                   queue, lock, cur, allocCount, ldata, hist>>

\* receiver.set_waiting_for_message(false): a relaxed store
SmClear(t) ==
    /\ pc[t] = "sm_clear"
    /\ waiting' = WakeClear(waiting, loc[t].recv)
    /\ loc' = [loc EXCEPT ![t].stored = ~waiting'[loc[t].recv],
                          ![t].flipped = waiting[loc[t].recv] /\ ~waiting'[loc[t].recv]]
    /\ pc' = [pc EXCEPT ![t] = "sm_sched"]
    /\ UNCHANGED <<reserved, mapped, mapCalls, pidOf, mailbox, ctx, queue,
                   lock, cur, allocCount, armed, ldata, hist>>

\* state.process_pool.schedule(Job::normal(receiver))
SmSchedule(t) ==
    /\ pc[t] = "sm_sched"
    /\ queue' = Append(queue, loc[t].recv)
    /\ hist' = CountSched(hist, loc[t].recv)
    /\ loc' = [loc EXCEPT ![t].sched = @ + 1]
    /\ pc' = [pc EXCEPT ![t] = "sm_unlock"]
    /\ UNCHANGED <<reserved, mapped, mapCalls, pidOf, waiting, mailbox, ctx,
                   lock, cur, allocCount, armed, ldata>>

\* End of the if-let statement: the guard is dropped; then Ok(msg).
SmUnlock(t) ==
    /\ pc[t] = "sm_unlock"
    /\ lock' = IF lock = t THEN NoThread ELSE lock
    /\ loc' = [loc EXCEPT ![t].ret = SendResult(loc[t].msg)]
    /\ pc' = [pc EXCEPT ![t] = "sm_done"]
    /\ UNCHANGED <<reserved, mapped, mapCalls, pidOf, waiting, mailbox, ctx,
                   queue, cur, allocCount, armed, ldata, hist>>

\* The caller takes the result and goes on.
SmReturn(t) ==
    /\ pc[t] = "sm_done"
    /\ pc' = [pc EXCEPT ![t] = Resume(t)]
    /\ loc' = [loc EXCEPT ![t] = Frame0]
    /\ UNCHANGED <<reserved, mapped, mapCalls, pidOf, waiting, mailbox, ctx,
                   queue, lock, cur, allocCount, armed, ldata, hist>>


\* ---------------------------------------------------------------------
\* The scheduler pool and the code of a running process (spec.md section 5)

\* A worker that runs no process takes the next job of the pool.
WorkerTake(t) ==
    /\ pc[t] = "idle"
    /\ queue # <<>>
    /\ cur' = [cur EXCEPT ![t] = Head(queue)]
    /\ queue' = Tail(queue)
    /\ pc' = [pc EXCEPT ![t] = "run"]
    /\ UNCHANGED <<reserved, mapped, mapCalls, pidOf, waiting, mailbox, ctx,
                   lock, loc, allocCount, armed, ldata, hist>>

\* The running process reads the next message of its mailbox.
RcReceive(t) ==
    /\ pc[t] = "run"
    /\ MailboxHasMessage(mailbox[cur[t]])
    /\ mailbox' = [mailbox EXCEPT ![cur[t]] = MailboxPop(@)]
    /\ UNCHANGED <<reserved, mapped, mapCalls, pidOf, waiting, ctx, queue,
                   lock, pc, cur, loc, allocCount, armed, ldata, hist>>

\* The running process needs a message and finds its mailbox empty.
RcFindEmpty(t) ==
    /\ pc[t] = "run"
    /\ ~MailboxHasMessage(mailbox[cur[t]])
    /\ pc' = [pc EXCEPT ![t] = "rc_set"]
    /\ UNCHANGED <<reserved, mapped, mapCalls, pidOf, waiting, mailbox, ctx,
                   queue, lock, cur, loc, allocCount, armed, ldata, hist>>

\* It sets its waiting flag before it yields.
RcSet(t) ==
    /\ pc[t] = "rc_set"
    /\ waiting' = SetWaiting(waiting, cur[t], TRUE)
    /\ armed' = [armed EXCEPT ![cur[t]] = TRUE]
    /\ hist' = CountSet(hist, cur[t])
    /\ loc' = [u \in Threads |->
                 IF loc[u].recv = cur[t] /\ pc[u] \in {"sm_sched", "sm_unlock", "sm_done"}
                 THEN [loc[u] EXCEPT !.reset = TRUE]
                 ELSE loc[u]]
    /\ pc' = [pc EXCEPT ![t] = "rc_recheck"]
    /\ UNCHANGED <<reserved, mapped, mapCalls, pidOf, mailbox, ctx, queue,
                   lock, cur, allocCount, ldata>>

\* It checks the mailbox again: a message that arrived in the window makes
\* it take the flag back and go on; otherwise it is about to yield.
RcRecheck(t) ==
    /\ pc[t] = "rc_recheck"
    /\ IF MailboxHasMessage(mailbox[cur[t]])
       THEN /\ waiting' = SetWaiting(waiting, cur[t], FALSE)
            /\ armed' = [armed EXCEPT ![cur[t]] = FALSE]
            /\ pc' = [pc EXCEPT ![t] = "run"]
       ELSE /\ pc' = [pc EXCEPT ![t] = "rc_yield"]
            /\ UNCHANGED <<waiting, armed>>
    /\ UNCHANGED <<reserved, mapped, mapCalls, pidOf, mailbox, ctx, queue,
                   lock, cur, loc, allocCount, ldata, hist>>

\* It yields: the worker thread runs no process until it takes a job.
RcYield(t) ==
    /\ pc[t] = "rc_yield"
    /\ cur' = [cur EXCEPT ![t] = NoPid]
    /\ pc' = [pc EXCEPT ![t] = "idle"]
    /\ UNCHANGED <<reserved, mapped, mapCalls, pidOf, waiting, mailbox, ctx,
                   queue, lock, loc, allocCount, armed, ldata, hist>>

\* ---------------------------------------------------------------------
\* The steps of the threads, the calls taking their inputs from the
\* function identifiers F, the argument lists A and the messages M; spawn is
\* called while the number of processes created so far is in S.
NextOn(F, A, M, S) ==
    \E t \in Threads :
        \/ \E f \in F, a \in A : Cardinality(reserved) \in S /\ CallSpawn(t, f, a)
        \/ AlLock(t)
        \/ AlReserve(t)
        \/ AlMap(t)
        \/ SpInit(t)
        \/ SpSchedule(t)
        \/ SpReturn(t)
        \/ \E p \in PIDs, m \in M : CallSend(t, p, m)
        \/ SmLock(t)
        \/ SmDeliver(t)
        \/ SmCheck(t)
        \/ SmClear(t)
        \/ SmSchedule(t)
        \/ SmUnlock(t)
        \/ SmReturn(t)
        \/ WorkerTake(t)
        \/ RcReceive(t)
        \/ RcFindEmpty(t)
        \/ RcSet(t)
        \/ RcRecheck(t)
        \/ RcYield(t)

Next == NextOn({1}, ArgLists, {"m1"}, 0..MaxPid)

Spec == Init /\ [][Next]_vars

\* A thread inside send_message runs on: the straight-line code of the call
\* is executed by a worker thread the operating system keeps scheduling.
SendStep(t) ==
    SmLock(t) \/ SmDeliver(t) \/ SmCheck(t) \/ SmClear(t) \/ SmSchedule(t) \/ SmUnlock(t)

\* The same threads over a program whose processes are all spawned at start-up.
FairNext == NextOn({1}, ArgLists, {"m1"}, {0})

FairSpec == Init /\ [][FairNext]_vars /\ \A t \in Threads : WF_vars(SendStep(t))

\* The program of FairNext with the history kept: per process, the number of
\* times its flag was set to true and the number of schedule calls made for
\* it.  A process parks at most MaxParks times.
CountInit == Boot /\ hist = [k \in PIDs |-> [sets |-> 0, scheds |-> 0]]

CountNext == FairNext /\ \A k \in PIDs : hist'[k].sets <= MaxParks

CountSpec == CountInit /\ [][CountNext]_vars

\* Programs that only spawn: every function identifier, and argument lists
\* of the shortest and the longest lengths up to MaxArgs, ended by the empty
\* list or by another value.  spawn is called while fewer than MaxPid - 1
\* processes exist.
ArgList(k, tl) == [elems |-> [i \in 1..k |-> ToString(i)], tail |-> tl]

ArgLens == {0, 1, 2} \cup ((MaxArgs - 2)..MaxArgs)

SpawnArgLists == {ArgList(k, tl) : k \in ArgLens, tl \in {Nil, "T"}}

SpawnNext ==
    \E t \in Threads :
        \/ \E f \in FuncIds, a \in SpawnArgLists :
              Cardinality(reserved) < MaxPid - 1 /\ CallSpawn(t, f, a)
        \/ AlLock(t)
        \/ AlReserve(t)
        \/ AlMap(t)
        \/ SpInit(t)
        \/ SpSchedule(t)
        \/ SpReturn(t)
        \/ WorkerTake(t)

SpawnSpec == Init /\ [][SpawnNext]_vars


\* =====================================================================
\* Properties

Running(k) == \E t \in Threads : cur[t] = k
InQueue(k) == \E i \in 1..Len(queue) : queue[i] = k

\* Thread t is inside send_message with a resolved receiver.
Resolved(t) == loc[t].recv # NoPid
\* Thread t has passed the flag check of its send_message call.
Checked(t) == Resolved(t) /\ pc[t] \in {"sm_clear", "sm_sched", "sm_unlock", "sm_done"}
\* Thread t has passed the flag store of its wake path.
Cleared(t) == Resolved(t) /\ loc[t].obs /\ pc[t] \in {"sm_sched", "sm_unlock", "sm_done"}
\* Thread t has seen the flag set and has not finished its enqueue.
InWake(t) == Resolved(t) /\ loc[t].obs /\ pc[t] \in {"sm_clear", "sm_sched"}

\* C1 (as stated): when a send_message call that saw the receiver's flag set
\* returns, the receiver's flag is false and the call has made exactly one
\* schedule call.
C1_FlagFalseAtReturn ==
    [][\A t \in Threads :
          SmUnlock(t) /\ loc[t].obs =>
              ~waiting'[loc[t].recv] /\ loc'[t].sched = 1]_vars

\* C1 (amended): a send_message call that saw the receiver's flag set stores
\* false into it and then makes exactly one schedule call for the receiver;
\* from that store to the return the flag is true only if the receiver
\* process has itself set it again.
C1_WakeClearsAndSchedulesOnce ==
    \A t \in Threads :
        Cleared(t) =>
            /\ waiting[loc[t].recv] => loc[t].reset
            /\ loc[t].sched = IF pc[t] = "sm_sched" THEN 0 ELSE 1

C1_Witness ==
    \E t \in Threads :
        /\ pc[t] = "sm_done" /\ Resolved(t) /\ loc[t].obs
        /\ loc[t].sched = 1
        /\ ~waiting[loc[t].recv]
        /\ InQueue(loc[t].recv)

\* C2: of the send_message calls that run concurrently against one receiver,
\* at most one at a time is on the wake path, and no call sees as set a flag
\* that an earlier call has already seen set for the same park: the receiver
\* is enqueued once per park.
C2_OneWakerPerPark ==
    /\ \A t \in Threads : ~loc[t].dup
    /\ \A t, u \in Threads :
          t # u /\ InWake(t) /\ InWake(u) => loc[t].recv # loc[u].recv

C2_Witness ==
    \E t, u \in Threads :
        /\ t # u /\ cur[t] # cur[u]
        /\ Checked(t) /\ Checked(u) /\ loc[t].recv = loc[u].recv
        /\ ~Running(loc[t].recv)
        /\ loc[t].obs /\ loc[t].sched = 1
        /\ ~loc[u].obs /\ loc[u].sched = 0

\* C3: a receiver that parked by the protocol and has an unread message is
\* never left neither running nor enqueued: while it is so, a send_message
\* call that delivered to it is on its way to enqueue it, and the receiver
\* is eventually running or enqueued.
SpawnPending(k) ==
    \E t \in Threads :
        loc[t].newk = k /\ pc[t] \in {"al_map", "sp_init", "sp_sched", "panicked"}
Stranded(k) ==
    /\ k \in mapped /\ ~SpawnPending(k)
    /\ ~Running(k) /\ ~InQueue(k)
    /\ MailboxHasMessage(mailbox[k])
WakeInFlight(k) ==
    \E t \in Threads :
        /\ loc[t].recv = k
        /\ pc[t] \in {"sm_clear", "sm_sched"} \/ (pc[t] = "sm_check" /\ waiting[k])

C3_NoLostWakeup ==
    /\ [](\A k \in PIDs : Stranded(k) => WakeInFlight(k))
    /\ \A k \in PIDs : Stranded(k) ~> (Running(k) \/ InQueue(k))

C3_Witness == \E k \in PIDs : Stranded(k) /\ waiting[k]

C5_DistinctPids ==
    /\ \A p \in PIDs : allocCount[p] <= 1
    /\ \A t, u \in Threads :
          t # u /\ pc[t] = "sp_init" /\ pc[u] = "sp_init" =>
              pidOf[loc[t].newk] # pidOf[loc[u].newk]

C5_Witness ==
    \E t, u \in Threads :
        /\ t # u /\ pc[t] = "sp_init" /\ pc[u] = "sp_init"
        /\ pidOf[loc[t].newk] # pidOf[loc[u].newk]
        /\ allocCount[pidOf[loc[t].newk]] = 1 /\ allocCount[pidOf[loc[u].newk]] = 1

\* C6: whenever the table mutex is not held by an allocate call, so whenever
\* a lookup can run, every reserved PID is mapped, by exactly one map call;
\* and the process a successful allocate returned is the one its PID resolves to.
InAllocate(t) == pc[t] \in {"al_reserve", "al_map"}
C6_NoReservedUnmapped ==
    /\ (lock = NoThread \/ (lock \in Threads /\ ~InAllocate(lock))) =>
          /\ reserved = mapped
          /\ \A k \in reserved : mapCalls[k] = 1
    /\ \A t \in Threads :
          pc[t] \in {"sp_init", "sp_sched"} =>
              /\ loc[t].maps = 1
              /\ TableGet(pidOf[loc[t].newk]) = loc[t].newk

C6_Witness ==
    \E t, u \in Threads :
        /\ pc[t] = "sp_init" /\ loc[t].newk \in mapped
        /\ pc[u] = "sm_deliver" /\ loc[u].recv = loc[t].newk

\* C7: when reserve() returns no PID, allocate returns the allocation error
\* and does nothing else: the table, the processes and the pool are
\* unchanged, and spawn hands that failure to its caller without having
\* mapped or scheduled anything.
C7_ExhaustionIsClean ==
    /\ [][\A t \in Threads :
            AlReserve(t) /\ TableReserve = NoPid =>
                /\ loc'[t].ret = AllocError /\ pc'[t] = "sp_done"
                /\ UNCHANGED <<reserved, mapped, mapCalls, pidOf, waiting,
                               mailbox, ctx, queue, allocCount>>]_vars
    /\ [](\A t \in Threads :
            pc[t] = "sp_done" /\ loc[t].ret[1] = "Err" =>
                /\ loc[t].ret = AllocError
                /\ loc[t].maps = 0 /\ loc[t].sched = 0 /\ loc[t].newk = NoPid)
    /\ [][\A t \in Threads :
            SpReturn(t) /\ loc[t].ret[1] = "Err" =>
                UNCHANGED <<reserved, mapped, mapCalls, pidOf, waiting,
                            mailbox, ctx, queue, allocCount>>]_vars

C7_Witness ==
    \E t \in Threads :
        pc[t] = "sp_done" /\ loc[t].ret = AllocError /\ reserved = PIDs

\* C8: Process.send_message invokes one mailbox lane, once: the internal
\* lane when the sender's pid is the receiver's pid, the external lane for
\* any other sender.
C8_LaneBySender ==
    /\ [](\A t \in Threads :
            Checked(t) \/ (Resolved(t) /\ pc[t] = "sm_check") =>
                /\ loc[t].intl + loc[t].extl = 1
                /\ loc[t].intl = 1 <=> pidOf[cur[t]] = pidOf[loc[t].recv])
    /\ [][\A t \in Threads :
            SmDeliver(t) =>
                LET r == loc[t].recv
                    self == pidOf[cur[t]] = pidOf[r]
                IN /\ self => /\ mailbox'[r].internal = Append(mailbox[r].internal, loc[t].msg)
                              /\ mailbox'[r].external = mailbox[r].external
                   /\ ~self => /\ mailbox'[r].external = Append(mailbox[r].external, loc[t].msg)
                               /\ mailbox'[r].internal = mailbox[r].internal]_vars

C8_Witness ==
    \E t, u \in Threads :
        /\ t # u /\ pc[t] = "sm_done" /\ pc[u] = "sm_done"
        /\ Resolved(t) /\ loc[t].recv = cur[t] /\ loc[t].intl = 1 /\ loc[t].extl = 0
        /\ Resolved(u) /\ loc[u].recv # cur[u] /\ loc[u].intl = 0 /\ loc[u].extl = 1

\* C9: send_message to a PID the table does not resolve returns Ok(msg)
\* and changes no mailbox, no waiting flag and not the pool; to a PID that
\* resolves it returns Ok(msg) as well.
C9_UnknownPidIsNoOp ==
    /\ [](\A t \in Threads :
            pc[t] = "sm_done" =>
                /\ loc[t].ret = <<"Ok", loc[t].msg>>
                /\ ~Resolved(t) =>
                      loc[t].intl = 0 /\ loc[t].extl = 0 /\ loc[t].sched = 0)
    /\ [][\A t \in Threads :
            \/ SmLock(t) /\ TableGet(loc[t].pidv) = NoPid
            \/ SmReturn(t) /\ ~Resolved(t)
            => UNCHANGED <<mailbox, waiting, queue>>]_vars

C9_Witness ==
    \E t \in Threads :
        /\ pc[t] = "sm_done" /\ ~Resolved(t)
        /\ loc[t].pidv \notin mapped
        /\ loc[t].ret = <<"Ok", loc[t].msg>>

\* C10: a send_message call that finds the receiver's flag false delivers
\* the message to the receiver's mailbox, makes no schedule call and does
\* not write the flag.
C10_NoWakeWhenNotWaiting ==
    /\ [](\A t \in Threads :
            /\ Checked(t) /\ ~loc[t].obs =>
                  /\ pc[t] \in {"sm_unlock", "sm_done"}
                  /\ loc[t].sched = 0
                  /\ loc[t].intl + loc[t].extl = 1)
    /\ [][\A t \in Threads :
            /\ SmDeliver(t) =>
                  /\ MboxLen(loc[t].recv)' = MboxLen(loc[t].recv) + 1
                  /\ UNCHANGED <<waiting, queue>>
            /\ (SmCheck(t) \/ SmUnlock(t)) /\ ~loc'[t].obs =>
                  UNCHANGED <<waiting, queue, mailbox>>]_vars

C10_Witness ==
    \E t \in Threads :
        /\ pc[t] = "sm_done" /\ Resolved(t) /\ ~loc[t].obs
        /\ loc[t].sched = 0
        /\ MailboxHasMessage(mailbox[loc[t].recv])
        /\ ~waiting[loc[t].recv]

\* ---------------------------------------------------------------------
\* spawn: the argument registers

\* The spawn call of thread t has allocated its process and is past the
\* function lookup and the argument copy, or has panicked in them.
SpawnInited(t) ==
    pc[t] \in {"sp_sched", "sp_done", "panicked"} /\ loc[t].newk # NoPid

\* The number of cons cells of the argument list of t's spawn call
NumArgs(t) == Len(loc[t].args.elems)

\* Registers 0..k-1 of the new process hold the k list elements in order
\* and register k holds the list's terminal value.
RegsHold(t) ==
    LET a == loc[t].args
        x == ctx[loc[t].newk].x
    IN /\ \A i \in 1..Len(a.elems) : x[i] = a.elems[i]
       /\ x[Len(a.elems) + 1] = a.tail

\* C11 as stated: spawn of a function the module has, with an argument list
\* of length k for any k from 0 to 16, completes (it does not panic) and
\* leaves x[0..k-1] equal to the elements and x[k] equal to the terminal.
C11_ArgsUpToSixteen ==
    \A t \in Threads :
        SpawnInited(t) /\ loc[t].func \in DOMAIN Funs /\ NumArgs(t) <= NumRegs =>
            pc[t] # "panicked" /\ RegsHold(t)

\* C11: spawn of a function the module has, with an argument list of length
\* k for any k from 0 to 15, completes (it does not panic) and leaves
\* x[0..k-1] equal to the list elements in order and x[k] equal to the
\* list's terminal value; with k = 0, x[0] holds the terminal value.
C11_ArgsUpToFifteen ==
    \A t \in Threads :
        SpawnInited(t) /\ loc[t].func \in DOMAIN Funs /\ NumArgs(t) < NumRegs =>
            pc[t] # "panicked" /\ RegsHold(t)

C11_Witness ==
    \E t, u \in Threads :
        /\ pc[t] = "sp_done" /\ loc[t].ret[1] = "Ok"
        /\ NumArgs(t) = NumRegs - 1 /\ loc[t].args.tail = "T" /\ RegsHold(t)
        /\ pc[u] = "sp_done" /\ loc[u].ret[1] = "Ok"
        /\ NumArgs(u) = 0 /\ loc[u].args.tail = "T" /\ RegsHold(u)

\* C12: a spawn whose argument list is longer than the 16 registers is fatal
\* for that spawn: the call has panicked, it has returned no value (no PID),
\* it has made no schedule call, and the process it allocated is in no
\* scheduler queue and runs on no worker.
C12_OverflowIsFatal ==
    \A t \in Threads :
        SpawnInited(t) /\ NumArgs(t) > NumRegs =>
            /\ pc[t] = "panicked"
            /\ loc[t].ret = NoRet
            /\ loc[t].sched = 0
            /\ ~InQueue(loc[t].newk) /\ ~Running(loc[t].newk)

C12_Witness ==
    \E t \in Threads :
        /\ pc[t] = "panicked" /\ loc[t].func \in DOMAIN Funs
        /\ NumArgs(t) > NumRegs
        /\ loc[t].newk \in mapped
        /\ ctx[loc[t].newk].x[NumRegs] = loc[t].args.elems[NumRegs]

\* ---------------------------------------------------------------------
\* spawn: the order of its effects and its result

\* The process of t's spawn call is registered, its ip is the entry offset
\* of the function asked for and its argument registers are written.
SpawnReady(t) ==
    /\ loc[t].newk \in mapped
    /\ loc[t].func \in DOMAIN Funs
    /\ ctx[loc[t].newk].ip = Funs[loc[t].func]
    /\ RegsHold(t)

\* A step of t inside spawn other than the schedule call
SpawnOtherStep(t) ==
    \/ \E f \in FuncIds, a \in SpawnArgLists : CallSpawn(t, f, a)
    \/ AlLock(t) \/ AlReserve(t) \/ AlMap(t) \/ SpInit(t) \/ SpReturn(t)

\* C13: a spawn call that returns Ok has made exactly one schedule call, for
\* the new process, made when the process was already registered in the
\* table, its ip set to the function's entry offset and its argument
\* registers written; no other step of spawn touches the queue; and the
\* value returned is the PID under which the table resolves that process.
C13_ScheduleLastAndOnce ==
    /\ [](\A t \in Threads :
            pc[t] = "sp_done" /\ loc[t].ret[1] = "Ok" =>
                /\ loc[t].sched = 1
                /\ SpawnReady(t)
                /\ TableGet(loc[t].ret[2]) = loc[t].newk
                /\ pidOf[loc[t].newk] = loc[t].ret[2])
    /\ [][\A t \in Threads :
            /\ SpSchedule(t) =>
                  /\ SpawnReady(t) /\ loc[t].sched = 0
                  /\ queue' = Append(queue, loc[t].newk)
            /\ SpawnOtherStep(t) => queue' = queue]_vars

C13_Witness ==
    \E t \in Threads :
        /\ pc[t] = "sp_done" /\ loc[t].ret[1] = "Ok" /\ NumArgs(t) = 2
        /\ loc[t].ret[2] > 0
        /\ InQueue(loc[t].newk)

\* C14: a spawn call that makes no schedule call ends by returning a
\* failure value to its caller, and no spawn call panics its worker thread.
C14_FailureIsAValue ==
    \A t \in Threads :
        /\ pc[t] # "panicked"
        /\ pc[t] = "sp_done" /\ loc[t].sched = 0 => loc[t].ret[1] = "Err"

\* ---------------------------------------------------------------------
\* from_block: the initial state of a process

\* C15: the process allocate has just built (before it is registered) has 16
\* general registers all Nil, 16 floating registers all 0, an empty stack,
\* catches 0, ip 0, no cp, live 0, an empty mailbox, no thread affinity, an
\* empty dictionary and a false waiting flag; the context, thread affinity
\* and dictionary are still so when allocate has returned it to spawn.
C15_FreshProcess ==
    \A t \in Threads :
        /\ pc[t] \in {"al_map", "sp_init"} =>
              LET c == ctx[loc[t].newk] IN
              /\ DOMAIN c.x = 1..16 /\ \A i \in 1..16 : c.x[i] = Nil
              /\ DOMAIN c.f = 1..16 /\ \A i \in 1..16 : c.f[i] = 0
              /\ c.stack = <<>>
              /\ c.catches = 0
              /\ c.ip = 0
              /\ c.cp = {}
              /\ c.live = 0
              /\ ldata[loc[t].newk].thread_id = {}
              /\ ldata[loc[t].newk].dictionary = {}
        /\ pc[t] = "al_map" =>
              /\ mailbox[loc[t].newk] = [internal |-> <<>>, external |-> <<>>]
              /\ ~waiting[loc[t].newk]

C15_Witness ==
    \E t \in Threads :
        /\ pc[t] = "al_map" /\ loc[t].newk = 1
        /\ ctx[0].ip # 0 /\ ctx[0].x[1] # Nil

\* ---------------------------------------------------------------------
\* send_message: locks, order of the steps, and what the call changes

\* C16: no thread holds the process-table lock while it executes the
\* receiver's mailbox send or the schedule call of send_message.
C16_NoLockAcrossCalls ==
    \A t \in Threads :
        pc[t] \in {"sm_deliver", "sm_sched"} => lock # t

\* The call of t has made its one mailbox send
Delivered(t) == loc[t].intl + loc[t].extl = 1

\* The message of t's call is in a lane of its receiver's mailbox
MessagePresent(t) ==
    LET mb == mailbox[loc[t].recv] IN
    \/ \E i \in 1..Len(mb.internal) : mb.internal[i] = loc[t].msg
    \/ \E i \in 1..Len(mb.external) : mb.external[i] = loc[t].msg

\* The steps of one call come in the order deliver, check, clear, enqueue.
WakeOrder(t) ==
    /\ SmDeliver(t) => ~Delivered(t) /\ ~loc[t].obs /\ ~loc[t].stored /\ loc[t].sched = 0
    /\ SmCheck(t) => Delivered(t) /\ ~loc[t].stored /\ loc[t].sched = 0
    /\ SmClear(t) => Delivered(t) /\ loc[t].obs /\ loc'[t].stored /\ loc[t].sched = 0
    /\ SmSchedule(t) => Delivered(t) /\ loc[t].obs /\ loc[t].stored /\ loc[t].sched = 0

\* C17 as stated: the steps of a call come in the order deliver, check,
\* clear, enqueue, and at the enqueue the sender's message is in the
\* receiver's mailbox and the sender has cleared the flag.
C17_MessageInMailboxAtEnqueue ==
    [][\A t \in Threads :
        /\ WakeOrder(t)
        /\ SmSchedule(t) => MessagePresent(t)]_vars

\* C17: the steps of a call come in the order deliver, check, clear,
\* enqueue, all by the calling thread: at the enqueue the sender has already
\* delivered its message to the receiver's mailbox and has already stored
\* false into the receiver's flag (the receiver may have read the message).
C17_DeliverCheckClearEnqueue ==
    [][\A t \in Threads : WakeOrder(t)]_vars

C17_Witness ==
    \E t \in Threads :
        /\ pc[t] = "sm_unlock" /\ loc[t].sched = 1
        /\ Delivered(t) /\ loc[t].obs /\ loc[t].stored
        /\ InQueue(loc[t].recv)
        /\ ~MessagePresent(t)

\* ---------------------------------------------------------------------
\* spawn: what a call that has ended leaves behind

\* C18: when a spawn call has ended (returned, or panicked), the process it
\* registered in the table has been enqueued by it, and a call that enqueued
\* nothing has left no PID reserved for a process of its own.
C18_NoOrphanAfterSpawn ==
    \A t \in Threads :
        pc[t] \in {"sp_done", "panicked"} =>
            LET k == loc[t].newk IN
            /\ k # NoPid /\ k \in mapped => loc[t].sched = 1
            /\ loc[t].sched = 0 => k = NoPid \/ k \notin reserved

\* ---------------------------------------------------------------------
\* schedule calls and flag sets

SendCallStep(t) ==
    \/ \E p \in PIDs, m \in Msgs : CallSend(t, p, m)
    \/ SendStep(t)
    \/ SmReturn(t)

\* C20: a step of send_message leaves the process table (reserved PIDs,
\* registered processes, their pid fields), every execution context, thread
\* affinity and dictionary unchanged, and changes the mailbox and the flag of
\* no process other than the receiver it resolved (the sender's only when
\* the sender is that receiver).
C20_SendFrame ==
    [][\A t \in Threads :
        SendCallStep(t) =>
            /\ UNCHANGED <<reserved, mapped, mapCalls, pidOf, ctx, ldata>>
            /\ \A k \in PIDs :
                  k # loc[t].recv =>
                      mailbox'[k] = mailbox[k] /\ waiting'[k] = waiting[k]]_vars

C20_Witness ==
    \E t \in Threads :
        /\ pc[t] = "sm_unlock" /\ loc[t].sched = 1 /\ loc[t].flipped
        /\ loc[t].recv # cur[t]
        /\ \E k \in PIDs : k \notin {loc[t].recv, cur[t]} /\ waiting[k]

====
